---- MODULE Spec2Model ----
(***************************************************************************)
(* Item-management web application (main.py): module bootstrap, the        *)
(* request-scoped session provider get_db, and the four route handlers     *)
(* root, create_item, read_item and delete_item running concurrently       *)
(* against one items table.                                                *)
(***************************************************************************)
EXTENDS Integers, Sequences, FiniteSets, TLC

\* ------------------------------------------------------------------ bounds
NumRequests == 2        \* requests in flight at the same time
MaxCreates == 2         \* requests that may insert a row in one run

Requests == 1..NumRequests
SessionIds == 1..NumRequests
Ids == 1..MaxCreates
Names == {"", "Widget"}

\* Python's None and a present value, for Optional fields.
None == << >>
Some(x) == << x >>

\* ------------------------------------------------------- connection strings
\* Strings are sequences of characters, so that prefixes can be inspected.
Postgres == << "p", "o", "s", "t", "g", "r", "e", "s" >>
SchemeSep == << ":", "/", "/" >>
LegacyPrefix == Postgres \o SchemeSep
ModernPrefix == Postgres \o << "q", "l" >> \o SchemeSep
SqliteDefault == << "s", "q", "l", "i", "t", "e" >> \o SchemeSep
                   \o << "/", ".", "/", "t", "e", "s", "t", ".", "d", "b" >>
Host == << "h" >>

\* Values the DATABASE_URL environment variable can have after load_dotenv().
EnvValues ==
    { None,
      Some(<< >>),
      Some(LegacyPrefix \o Host),
      Some(ModernPrefix \o Host) }

\* os.getenv(key, default)
Getenv(e, default) == IF e = None THEN default ELSE e

\* str.startswith(prefix)
StartsWith(s, prefix) ==
    /\ Len(s) >= Len(prefix)
    /\ SubSeq(s, 1, Len(prefix)) = prefix

\* Index of the first occurrence of old in s, 0 when there is none.
Find(s, old) ==
    LET hits == { k \in 1..(Len(s) - Len(old) + 1) :
                    SubSeq(s, k, k + Len(old) - 1) = old }
    IN IF hits = {} THEN 0 ELSE CHOOSE k \in hits : \A j \in hits : k <= j

\* str.replace(old, new, 1)
ReplaceFirst(s, old, new) ==
    LET k == Find(s, old)
    IN IF k = 0 THEN s
       ELSE SubSeq(s, 1, k - 1) \o new \o SubSeq(s, k + Len(old), Len(s))

\* Lines 22-23.
Normalize(url) ==
    IF StartsWith(url, LegacyPrefix)
    THEN ReplaceFirst(url, LegacyPrefix, ModernPrefix)
    ELSE url

\* Line 19: DATABASE_URL = os.getenv("DATABASE_URL", "sqlite:///./test.db")
ReadDatabaseUrl(e) == Getenv(e, Some(SqliteDefault))

ReadConnectionStringWithDefault(e) == Getenv(e, Some(SqliteDefault))
\* Line 31: SQLALCHEMY_DATABASE_URL = os.getenv("DATABASE_URL")
ReadConnectionString(e) == Getenv(e, None)

\* Line 32: not SQLALCHEMY_DATABASE_URL  (None or the empty string)
Falsy(v) == v = None \/ v[1] = << >>

\* Line 35: the argument create_engine is called with.
EngineArgument(raw, normalized) == raw

\* ------------------------------------------------------------- items table
Row(id, name) == [id |-> id, name |-> name]

ItemIds(t) == { t[k].id : k \in DOMAIN t }

\* db.query(Item).all()
QueryAll(t) == t

\* db.query(Item).filter(Item.id == item_id).first()
QueryFirst(t, id) ==
    LET m == SelectSeq(t, LAMBDA row : row.id = id)
    IN IF m = << >> THEN None ELSE Some(m[1])

\* INSERT INTO items (name) VALUES (name), the key chosen by the storage engine.
InsertRowBlankName(t, id, name) == Append(t, Row(id, ""))
InsertRow(t, id, name) == Append(t, Row(id, name))

\* DELETE FROM items WHERE id = id
DeleteRowNone(t, id) == t
DeleteRowFirst(t, id) == IF t = << >> THEN t ELSE Tail(t)
DeleteRow(t, id) == SelectSeq(t, LAMBDA row : row.id # id)

\* Keys the storage engine may give a new row: any key no row of the table has
\* (a sequence never hands out a key twice; a rowid table may reuse a freed key).
AssignableIdsAny(t) == Ids
AssignableIds(t) == { i \in Ids : i \notin ItemIds(t) }

\* A failed flush or commit is rolled back by the storage engine.
RollbackPartial(t, pending) ==
    IF pending = None THEN t ELSE Append(t, Row(0, pending[1]))
Rollback(t, pending) == t

\* ------------------------------------------------------------------- state
VARIABLES
    env,                        \* DATABASE_URL in the process environment
    DATABASE_URL,               \* module global, lines 19-23
    SQLALCHEMY_DATABASE_URL,    \* module global, line 31
    engine,                     \* the URL the engine was created with, or None
    schema,                     \* TRUE once create_all has run
    bootpc,                     \* position in the module body
    table,                      \* rows of the items table, in insertion order
    sessions,                   \* session objects made by SessionLocal
    req,                        \* the requests being handled
    nCreated,                   \* INSERTs committed so far
    nDeleted,                   \* rows removed by committed DELETEs so far
    live                        \* per id, the name last created and not deleted since

vars == << env, DATABASE_URL, SQLALCHEMY_DATABASE_URL, engine, schema, bootpc,
           table, sessions, req, nCreated, nDeleted, live >>

bootvars == << env, DATABASE_URL, SQLALCHEMY_DATABASE_URL, engine, schema, bootpc >>

FreeSession == [state |-> "free", owner |-> 0, new |-> None, deleted |-> None]

IdleRequest ==
    [pc |-> "idle", op |-> "none", item_id |-> 0, name |-> "", db |-> 0,
     item |-> None, items |-> << >>, status |-> 0, page |-> "none",
     failed |-> "none"]

Init ==
    /\ env \in EnvValues
    /\ DATABASE_URL = None
    /\ SQLALCHEMY_DATABASE_URL = None
    /\ engine = None
    /\ schema = FALSE
    /\ bootpc = "getenv"
    /\ table = << >>
    /\ sessions = [s \in SessionIds |-> FreeSession]
    /\ req = [r \in Requests |-> IdleRequest]
    /\ nCreated = 0
    /\ nDeleted = 0
    /\ live = [i \in Ids |-> None]

\* --------------------------------------------------------------- bootstrap
appvars == << table, sessions, req, nCreated, nDeleted, live >>

\* Line 19.
BootGetenv ==
    /\ bootpc = "getenv"
    /\ DATABASE_URL' = ReadDatabaseUrl(env)
    /\ bootpc' = "normalize"
    /\ UNCHANGED << env, SQLALCHEMY_DATABASE_URL, engine, schema >>
    /\ UNCHANGED appvars

\* Lines 22-23.
BootNormalize ==
    /\ bootpc = "normalize"
    /\ DATABASE_URL' = Some(Normalize(DATABASE_URL[1]))
    /\ bootpc' = "connect"
    /\ UNCHANGED << env, SQLALCHEMY_DATABASE_URL, engine, schema >>
    /\ UNCHANGED appvars

\* Lines 31-33.
BootConnectionString ==
    /\ bootpc = "connect"
    /\ SQLALCHEMY_DATABASE_URL' = ReadConnectionString(env)
    /\ bootpc' = IF Falsy(SQLALCHEMY_DATABASE_URL') THEN "raised" ELSE "create_engine"
    /\ UNCHANGED << env, DATABASE_URL, engine, schema >>
    /\ UNCHANGED appvars

\* Line 35.
BootCreateEngine ==
    /\ bootpc = "create_engine"
    /\ engine' = EngineArgument(SQLALCHEMY_DATABASE_URL, DATABASE_URL)
    /\ bootpc' = "create_all"
    /\ UNCHANGED << env, DATABASE_URL, SQLALCHEMY_DATABASE_URL, schema >>
    /\ UNCHANGED appvars

\* Line 49.
BootCreateAll ==
    /\ bootpc = "create_all"
    /\ schema' = TRUE
    /\ bootpc' = "run"
    /\ UNCHANGED << env, DATABASE_URL, SQLALCHEMY_DATABASE_URL, engine >>
    /\ UNCHANGED appvars

\* Lines 127-129: the listener starts once the module body has run.
BootRun ==
    /\ bootpc = "run"
    /\ bootpc' = "up"
    /\ UNCHANGED << env, DATABASE_URL, SQLALCHEMY_DATABASE_URL, engine, schema >>
    /\ UNCHANGED appvars

Listening == bootpc = "up"

\* ------------------------------------------------------- session provider
\* Line 64: SessionLocal() makes a session object of its own for each call.
SessionLocal(ss) ==
    CHOOSE s \in SessionIds :
        /\ ss[s].state = "free"
        /\ \A j \in SessionIds : ss[j].state = "free" => s <= j

\* Lines 65-68: the finally clause runs on every exit of the handler.
ClosedOnReturnOnly(page) == page # "unhandled"
ClosedOnExit(page) == TRUE

\* What a request can ask for: the route, its path parameter, its form field.
RequestInputs ==
    { [op |-> "list", item_id |-> 0, name |-> ""] }
    \cup { [op |-> "create", item_id |-> 0, name |-> n] : n \in Names }
    \cup { [op |-> o, item_id |-> i, name |-> ""] : o \in {"read", "delete"}, i \in Ids }

FirstStep(op) ==
    CASE op = "list" -> "list_query"
      [] op = "create" -> "create_add"
      [] op = "read" -> "read_query"
      [] op = "delete" -> "delete_query"

CreatesInFlight ==
    Cardinality({ q \in Requests : req[q].pc \in {"create_add", "create_commit"} })

\* A request arrives and Depends(get_db) opens its session (line 64). Requests
\* are interchangeable, so a new one takes the lowest free place; Creates stop
\* arriving once MaxCreates of them have committed or are about to.
\* Handlers of different requests may interleave at every statement that
\* reaches the storage engine (several worker processes share one database).
Begin(r, in) ==
    /\ Listening
    /\ req[r].pc = "idle"
    /\ \A q \in Requests : q < r => req[q].pc # "idle"
    /\ in.op = "create" => nCreated + CreatesInFlight < MaxCreates
    /\ LET s == SessionLocal(sessions)
       IN /\ sessions' = [sessions EXCEPT ![s] =
                             [state |-> "open", owner |-> r, new |-> None, deleted |-> None]]
          /\ req' = [req EXCEPT ![r] =
                             [IdleRequest EXCEPT !.pc = FirstStep(in.op), !.op = in.op,
                                                 !.item_id = in.item_id, !.name = in.name,
                                                 !.db = s]]
    /\ UNCHANGED << table, nCreated, nDeleted, live >>
    /\ UNCHANGED bootvars

\* The handler returns a response; get_db's finally clause is next.
Respond(q, status, page) == [q EXCEPT !.pc = "close", !.status = status, !.page = page]

\* Line 68: db.close(), then the request is complete.
Close(r) ==
    /\ req[r].pc = "close"
    /\ sessions' = IF ClosedOnExit(req[r].page)
                   THEN [sessions EXCEPT ![req[r].db] =
                             [@ EXCEPT !.state = "closed", !.new = None, !.deleted = None]]
                   ELSE sessions
    /\ req' = [req EXCEPT ![r] =
                  [IdleRequest EXCEPT !.pc = "done", !.db = req[r].db,
                                      !.op = req[r].op, !.item_id = req[r].item_id,
                                      !.status = req[r].status, !.page = req[r].page]]
    /\ UNCHANGED << table, nCreated, nDeleted, live >>
    /\ UNCHANGED bootvars

\* The response has been sent; the request and its session object are dropped.
Recycle(r) ==
    /\ req[r].pc = "done"
    /\ sessions' = [s \in SessionIds |->
                       IF sessions[s].owner = r THEN FreeSession ELSE sessions[s]]
    /\ req' = [req EXCEPT ![r] = IdleRequest]
    /\ UNCHANGED << table, nCreated, nDeleted, live >>
    /\ UNCHANGED bootvars

\* ------------------------------------------------------------------ routes
\* The status of the error page a handler's except clause renders:
\* root and create_item pass no status_code (lines 78, 91), read_item and
\* delete_item pass 500 (lines 105, 108, 122, 125).
ErrorStatus(op) == IF op \in {"list", "create"} THEN 200 ELSE 500

\* Lines 100 and 115.
NotFoundStatusUnset(op) == 200
NotFoundStatus(op) == 404

\* GET /, lines 73-75.
ListQuery(r) ==
    /\ req[r].pc = "list_query"
    /\ req' = [req EXCEPT ![r] = [Respond(@, 200, "index") EXCEPT !.items = QueryAll(table)]]
    /\ UNCHANGED << table, sessions, nCreated, nDeleted, live >>
    /\ UNCHANGED bootvars

\* POST /items/, lines 83-84: the new Item is pending in the session.
CreateAdd(r) ==
    /\ req[r].pc = "create_add"
    /\ sessions' = [sessions EXCEPT ![req[r].db].new = Some(req[r].name)]
    /\ req' = [req EXCEPT ![r].pc = "create_commit",
                          ![r].item = Some(Row(0, req[r].name))]
    /\ UNCHANGED << table, nCreated, nDeleted, live >>
    /\ UNCHANGED bootvars

\* Line 85: the flush inserts the pending Item and the transaction commits.
CreateCommit(r) ==
    /\ req[r].pc = "create_commit"
    /\ \E id \in AssignableIds(table) :
          /\ table' = InsertRow(table, id, sessions[req[r].db].new[1])
          /\ req' = [req EXCEPT ![r].pc = "create_refresh",
                                ![r].item = Some(Row(id, req[r].name))]
          /\ live' = [live EXCEPT ![id] = Some(req[r].name)]
    /\ sessions' = [sessions EXCEPT ![req[r].db].new = None]
    /\ nCreated' = nCreated + 1
    /\ UNCHANGED nDeleted
    /\ UNCHANGED bootvars

\* Lines 86-88: refresh reloads the row by its key, then the redirect.
\* A row deleted in the meantime makes refresh raise, which line 89 catches.
CreateRefresh(r) ==
    /\ req[r].pc = "create_refresh"
    /\ LET row == QueryFirst(table, req[r].item[1].id)
       IN req' = [req EXCEPT ![r] =
                    IF row = None
                    THEN [Respond(@, ErrorStatus("create"), "error")
                             EXCEPT !.failed = "create_refresh"]
                    ELSE [Respond(@, 303, "redirect") EXCEPT !.item = row]]
    /\ UNCHANGED << table, sessions, nCreated, nDeleted, live >>
    /\ UNCHANGED bootvars

\* GET /items/{item_id}, lines 96-102.
ReadQuery(r) ==
    /\ req[r].pc = "read_query"
    /\ LET item == QueryFirst(table, req[r].item_id)
       IN req' = [req EXCEPT ![r] =
                    IF item = None
                    THEN Respond(@, NotFoundStatus("read"), "error")
                    ELSE [Respond(@, 200, "item_detail") EXCEPT !.item = item]]
    /\ UNCHANGED << table, sessions, nCreated, nDeleted, live >>
    /\ UNCHANGED bootvars

\* POST /items/{item_id}/delete, lines 113-115.
DeleteQuery(r) ==
    /\ req[r].pc = "delete_query"
    /\ LET item == QueryFirst(table, req[r].item_id)
       IN req' = [req EXCEPT ![r] =
                    IF item = None
                    THEN Respond(@, NotFoundStatus("delete"), "error")
                    ELSE [@ EXCEPT !.pc = "delete_mark", !.item = item]]
    /\ UNCHANGED << table, sessions, nCreated, nDeleted, live >>
    /\ UNCHANGED bootvars

\* Line 116: the Item is marked for deletion in the session.
DeleteMark(r) ==
    /\ req[r].pc = "delete_mark"
    /\ sessions' = [sessions EXCEPT ![req[r].db].deleted = Some(req[r].item[1].id)]
    /\ req' = [req EXCEPT ![r].pc = "delete_commit"]
    /\ UNCHANGED << table, nCreated, nDeleted, live >>
    /\ UNCHANGED bootvars

\* Lines 117-119: the flush deletes by key and the transaction commits. A
\* DELETE that matches no row any more is reported as a warning only.
DeleteCommit(r) ==
    /\ req[r].pc = "delete_commit"
    /\ table' = DeleteRow(table, sessions[req[r].db].deleted[1])
    /\ sessions' = [sessions EXCEPT ![req[r].db].deleted = None]
    /\ req' = [req EXCEPT ![r] = Respond(@, 303, "redirect")]
    /\ nDeleted' = nDeleted + (Len(table) - Len(table'))
    /\ live' = [live EXCEPT ![req[r].item_id] = None]
    /\ UNCHANGED nCreated
    /\ UNCHANGED bootvars

\* Lines 117, 120-122: the row this request loaded was removed by another
\* transaction, and the storage engine rejects the commit (lock or
\* serialization failure), which arrives as an SQLAlchemyError.
DeleteCommitStale(r) ==
    /\ req[r].pc = "delete_commit"
    /\ QueryFirst(table, req[r].item_id) # req[r].item
    /\ table' = Rollback(table, sessions[req[r].db].new)
    /\ sessions' = [sessions EXCEPT ![req[r].db].deleted = None]
    /\ req' = [req EXCEPT ![r] =
                  [Respond(@, ErrorStatus("delete"), "error") EXCEPT !.failed = "delete_commit"]]
    /\ UNCHANGED << nCreated, nDeleted, live >>
    /\ UNCHANGED bootvars

InHandler ==
    {"list_query", "create_add", "create_commit", "create_refresh",
     "read_query", "delete_query", "delete_mark", "delete_commit"}

\* The statement the handler is at raises inside the try block, and the
\* handler's except clause renders the error page (lines 76-78, 89-91,
\* 103-108, 120-125). Pending changes are rolled back.
HandlerRaises(r) ==
    /\ req[r].pc \in InHandler
    /\ table' = Rollback(table, sessions[req[r].db].new)
    /\ sessions' = [sessions EXCEPT ![req[r].db].new = None, ![req[r].db].deleted = None]
    /\ req' = [req EXCEPT ![r] =
                  [Respond(@, ErrorStatus(req[r].op), "error") EXCEPT !.failed = req[r].pc]]
    /\ UNCHANGED << nCreated, nDeleted, live >>
    /\ UNCHANGED bootvars

\* A fault that no except clause of the handler catches (a BaseException such
\* as a cancellation, or the error page failing to render) leaves the handler;
\* the framework answers 500 and get_db's finally clause still runs.
HandlerFaults(r) ==
    /\ req[r].pc \in InHandler
    /\ table' = Rollback(table, sessions[req[r].db].new)
    /\ sessions' = [sessions EXCEPT ![req[r].db].new = None, ![req[r].db].deleted = None]
    /\ req' = [req EXCEPT ![r] = [Respond(@, 500, "unhandled") EXCEPT !.failed = req[r].pc]]
    /\ UNCHANGED << nCreated, nDeleted, live >>
    /\ UNCHANGED bootvars

\* ---------------------------------------------------------- specifications
Next ==
    \/ BootGetenv
    \/ BootNormalize
    \/ BootConnectionString
    \/ BootCreateEngine
    \/ BootCreateAll
    \/ BootRun
    \/ \E r \in Requests, in \in RequestInputs : Begin(r, in)
    \/ \E r \in Requests : ListQuery(r)
    \/ \E r \in Requests : CreateAdd(r)
    \/ \E r \in Requests : CreateCommit(r)
    \/ \E r \in Requests : CreateRefresh(r)
    \/ \E r \in Requests : ReadQuery(r)
    \/ \E r \in Requests : DeleteQuery(r)
    \/ \E r \in Requests : DeleteMark(r)
    \/ \E r \in Requests : DeleteCommit(r)
    \/ \E r \in Requests : DeleteCommitStale(r)
    \/ \E r \in Requests : HandlerRaises(r)
    \/ \E r \in Requests : HandlerFaults(r)
    \/ \E r \in Requests : Close(r)
    \/ \E r \in Requests : Recycle(r)

Spec == Init /\ [][Next]_vars

\* Two or more Delete requests for one id that has an Item, and nothing else:
\* the application is up, the table holds Items created earlier, and the
\* storage engine fails a request only when it lost a race for its row.
PopulatedTables ==
    { t \in UNION { [1..n -> { Row(i, nm) : i \in Ids, nm \in Names }] : n \in 1..MaxCreates } :
        \A j, k \in DOMAIN t : j # k => t[j].id # t[k].id }

InitDel ==
    /\ env = Some(ModernPrefix \o Host)
    /\ DATABASE_URL = Some(Normalize(ReadDatabaseUrl(env)[1]))
    /\ SQLALCHEMY_DATABASE_URL = ReadConnectionString(env)
    /\ engine = EngineArgument(SQLALCHEMY_DATABASE_URL, DATABASE_URL)
    /\ schema = TRUE
    /\ bootpc = "up"
    /\ table \in PopulatedTables
    /\ sessions = [s \in SessionIds |-> FreeSession]
    /\ req = [r \in Requests |-> IdleRequest]
    /\ nCreated = Len(table)
    /\ nDeleted = 0
    /\ live = [i \in Ids |->
                 IF QueryFirst(table, i) = None THEN None
                 ELSE Some(QueryFirst(table, i)[1].name)]

\* POST /items/{item_id}/delete for the id the other requests are for.
BeginDelete(r) ==
    \E i \in Ids :
        /\ \A q \in Requests : req[q].pc # "idle" => req[q].item_id = i
        /\ (\A q \in Requests : req[q].pc = "idle") => i \in ItemIds(table)
        /\ Begin(r, [op |-> "delete", item_id |-> i, name |-> ""])

NextDel ==
    \/ \E r \in Requests : BeginDelete(r)
    \/ \E r \in Requests : DeleteQuery(r)
    \/ \E r \in Requests : DeleteMark(r)
    \/ \E r \in Requests : DeleteCommit(r)
    \/ \E r \in Requests : DeleteCommitStale(r)
    \/ \E r \in Requests : Close(r)

SpecDel == InitDel /\ [][NextDel]_vars

\* ------------------------------------------------------------------ claims
\* Request r takes the step at position pc and its statement does not raise.
Runs(r, pc) ==
    /\ req[r].pc = pc
    /\ req'[r].pc # pc
    /\ req'[r].failed = "none"

\* Request r looks an id up (lines 96, 113) and the query does not raise.
LooksUp(r) == Runs(r, "read_query") \/ Runs(r, "delete_query")

\* The commit of a Create inserts one row: fresh key, submitted name.
CreateStep ==
    \A r \in Requests :
        Runs(r, "create_commit") =>
            \E id \in Ids :
                /\ id \notin ItemIds(table)
                /\ table' = Append(table, Row(id, req[r].name))
                /\ req'[r].item = Some(Row(id, req[r].name))

\* A GetById of an id created and not deleted since returns that Item.
GetByIdStep ==
    \A g \in Requests :
        (Runs(g, "read_query") /\ live[req[g].item_id] # None) =>
            /\ req'[g].status = 200
            /\ req'[g].page = "item_detail"
            /\ req'[g].item = Some(Row(req[g].item_id, live[req[g].item_id][1]))

\* C1: a Create whose commit succeeds adds exactly one row, under a key the
\* storage engine chose that no row had, with the submitted name; and a
\* GetById of an id whose last Create has not been followed by a Delete of
\* that id answers 200 with the Item of exactly that name.
CreateThenGetById == [][CreateStep /\ GetByIdStep]_vars

CreateThenGetByIdWitness ==
    \E g \in Requests :
        /\ req[g].pc = "close"
        /\ req[g].page = "item_detail"
        /\ req[g].item = Some(Row(req[g].item_id, "Widget"))
        /\ nDeleted = 0

\* A lookup that finds no row answers 404; a 404 request writes nothing.
MissingIdStep ==
    \A r \in Requests :
        /\ (LooksUp(r) /\ req[r].item_id \notin ItemIds(table)) =>
               /\ req'[r].status = 404
               /\ req'[r].page = "error"
               /\ req'[r].pc = "close"
               /\ table' = table
        /\ (req[r].status = 404 /\ req'[r] # req[r]) => table' = table

\* C2: a GetById or Delete of an id that has no row answers the error page
\* with status 404, and no step of that request changes the table.
MissingIdIsNotFound == [][MissingIdStep]_vars

MissingIdIsNotFoundWitness ==
    /\ table # << >>
    /\ \E r \in Requests :
          /\ req[r].op = "delete"
          /\ req[r].pc = "done"
          /\ req[r].status = 404
    /\ \E r \in Requests :
          /\ req[r].op = "read"
          /\ req[r].pc = "close"
          /\ req[r].status = 404

\* The commit of a Delete removes the rows of its id and answers 303.
DeleteStep ==
    \A r \in Requests :
        Runs(r, "delete_commit") =>
            /\ req'[r].status = 303
            /\ req'[r].page = "redirect"
            /\ req[r].item_id \notin ItemIds(table')
            /\ table' = SelectSeq(table, LAMBDA row : row.id # req[r].item_id)
            /\ live'[req[r].item_id] = None

\* Lookups and listings after a Delete do not see the deleted id.
AfterDeleteStep ==
    \A r \in Requests :
        /\ (LooksUp(r) /\ live[req[r].item_id] = None) =>
               /\ req'[r].status = 404
               /\ req'[r].page = "error"
        /\ Runs(r, "list_query") =>
               \A k \in DOMAIN req'[r].items : live[req'[r].items[k].id] # None

\* C3: a Delete whose commit succeeds answers 303 to / and removes the row
\* of its id and no other row; from then on, until that id is created again,
\* a GetById or a Delete of that id answers 404 and ListAll lists no row of
\* that id.
DeleteRemovesItem == [][DeleteStep /\ AfterDeleteStep]_vars

DeleteRemovesItemWitness ==
    /\ nDeleted = 1
    /\ Len(table) = 1
    /\ \E r \in Requests :
          /\ req[r].op = "delete"
          /\ req[r].pc = "done"
          /\ req[r].status = 303
    /\ \E r \in Requests :
          /\ req[r].op = "delete"
          /\ req[r].pc = "close"
          /\ req[r].status = 404
          /\ live[req[r].item_id] = None

\* What ListAll returns while no row has been deleted.
ListStep ==
    \A r \in Requests :
        (Runs(r, "list_query") /\ nDeleted = 0) =>
            /\ Len(req'[r].items) = nCreated
            /\ Cardinality(ItemIds(req'[r].items)) = nCreated
            /\ \A i \in Ids :
                  live[i] # None =>
                      \E k \in DOMAIN req'[r].items : req'[r].items[k] = Row(i, live[i][1])
            /\ table' = table

\* C4: while no Delete has removed a row, ListAll returns as many Items as
\* Creates have committed, one for each, with pairwise distinct ids, and
\* leaves the table as it was.
ListAllAfterCreates == [][ListStep]_vars

ListAllAfterCreatesWitness ==
    /\ nDeleted = 0
    /\ nCreated = 2
    /\ \E r \in Requests :
          /\ req[r].pc = "close"
          /\ req[r].page = "index"
          /\ Len(req[r].items) = 2

\* C5: on each of the four routes, a handler whose storage operation failed
\* answers the error page with status 500.
StorageFailureIs500 ==
    \A r \in Requests :
        (req[r].pc = "close" /\ req[r].failed # "none" /\ req[r].page = "error") =>
            req[r].status = 500

\* Request r has its session and has not completed.
InFlight(r) == req[r].pc \in InHandler \cup {"close"}

\* C6: a request in its handler holds exactly one open session, which is its
\* own and no other request's; a completed request's session is closed,
\* whatever the handler's exit; and an open session belongs to a request
\* that has not completed.
SessionPerRequest ==
    /\ \A r \in Requests :
          /\ InFlight(r) =>
                /\ sessions[req[r].db].state = "open"
                /\ { s \in SessionIds : sessions[s].owner = r } = { req[r].db }
          /\ req[r].pc = "done" =>
                /\ sessions[req[r].db].state = "closed"
                /\ { s \in SessionIds : sessions[s].owner = r } = { req[r].db }
          /\ req[r].pc = "idle" => { s \in SessionIds : sessions[s].owner = r } = {}
    /\ \A s \in SessionIds :
          sessions[s].state = "open" =>
              /\ sessions[s].owner \in Requests
              /\ InFlight(sessions[s].owner)
              /\ req[sessions[s].owner].db = s

SessionPerRequestWitness ==
    /\ \E r \in Requests : req[r].pc = "done" /\ req[r].page = "unhandled"
    /\ \E r \in Requests : req[r].pc = "done" /\ req[r].page = "error"
    /\ \A s \in SessionIds : sessions[s].state = "closed"

\* Every row has a key and a name.
WholeRows(t) == \A k \in DOMAIN t : t[k].id \in Ids /\ t[k].name \in Names

\* A failing step of a Create writes nothing; only its commit writes.
FailedCreateStep ==
    /\ \A r \in Requests :
          /\ (req[r].op = "create" /\ req[r].failed = "none" /\ req'[r].failed # "none") =>
                /\ table' = table
                /\ req'[r].page \in {"error", "unhandled"}
                /\ req'[r].pc = "close"
                /\ req'[r].failed = "create_refresh" =>
                      /\ req[r].item # None
                      /\ req[r].item[1].id \in Ids
          /\ (req[r].op = "create" /\ req'[r] # req[r] /\ ~Runs(r, "create_commit")) =>
                table' = table
    /\ WholeRows(table')

\* C7: a Create that fails answers an error and leaves no partial record: the
\* failing step leaves the table as it was, every step of a Create other than
\* its successful commit leaves the table as it was, and every row of the
\* table has an id and a name.
FailedCreateLeavesNoPartialRecord == [][FailedCreateStep]_vars

FailedCreateLeavesNoPartialRecordWitness ==
    /\ table # << >>
    /\ \E r \in Requests :
          /\ req[r].op = "create"
          /\ req[r].pc = "close"
          /\ req[r].failed = "create_commit"
          /\ req[r].page = "error"
    /\ \E r \in Requests :
          /\ req[r].op = "create"
          /\ req[r].pc = "done"
          /\ req[r].page = "error"

\* Positions of the module body before line 35.
BeforeEngine == {"getenv", "normalize", "connect", "raised"}

\* C8: with DATABASE_URL not set, the module body raises before the engine
\* and the schema are created and before any request is accepted, and no
\* default connection string takes its place.
FailsFastWithoutDatabaseUrl ==
    env = None =>
        /\ bootpc \in BeforeEngine
        /\ SQLALCHEMY_DATABASE_URL = None
        /\ engine = None
        /\ schema = FALSE
        /\ ~Listening
        /\ \A r \in Requests : req[r].pc = "idle"

FailsFastWithoutDatabaseUrlWitness ==
    /\ env = None
    /\ bootpc = "raised"
    /\ DATABASE_URL = Some(SqliteDefault)

\* C9: with a DATABASE_URL that begins with postgres://, the engine is
\* created with that prefix rewritten to postgresql:// and the rest of the
\* string unchanged; never with a postgres:// URL.
EngineUrlIsNormalized ==
    (engine # None /\ env # None /\ StartsWith(env[1], LegacyPrefix)) =>
        /\ ~StartsWith(engine[1], LegacyPrefix)
        /\ engine[1] = ModernPrefix \o SubSeq(env[1], Len(LegacyPrefix) + 1, Len(env[1]))

\* Every request has been made and has completed.
Completed == \A r \in Requests : req[r].pc = "done"

\* C10: when every one of the concurrent Deletes of one id that had an Item
\* has completed, each has answered 303, 404 or 500 from its own handler, at
\* least one has answered 303, no row has that id, and every other row is in
\* the table as before.
ConcurrentDeletes ==
    Completed =>
        /\ \A r \in Requests :
              /\ req[r].status \in {303, 404, 500}
              /\ req[r].page \in {"redirect", "error"}
              /\ req[r].item_id \notin ItemIds(table)
              /\ \A i \in Ids \ {req[r].item_id} :
                    /\ live[i] # None => QueryFirst(table, i) = Some(Row(i, live[i][1]))
                    /\ live[i] = None => QueryFirst(table, i) = None
        /\ \E r \in Requests : req[r].status = 303
        /\ nDeleted = 1
        /\ Len(table) = nCreated - 1

ConcurrentDeletesWitness ==
    /\ Completed
    /\ table # << >>
    /\ \E r, q \in Requests :
          /\ r # q
          /\ req[r].status = 303
          /\ req[q].status = 500
====
